---- MODULE Spec2Model ----
(***************************************************************************)
(* Safety-protection state machine of the 48V power module test platform: *)
(* SafetyMonitor (src/src/system_under_test/safety_monitor.py) and the    *)
(* PowerManagement controller that owns it                                 *)
(* (src/src/system_under_test/power_management.py).                        *)
(*                                                                         *)
(* Voltages, currents and temperatures are integers (V, A, degC).          *)
(* Timestamps and log output are not modelled.                             *)
(***************************************************************************)
EXTENDS Integers, Sequences, FiniteSets, TLC

(* ------------------------------ bounds -------------------------------- *)
\* longest SafetyMonitor.fault_history explored where the status is queried
MaxStatusFaults == 6
\* longest SafetyMonitor.fault_history explored
MaxFaults == 2
\* longest PowerManagement.fault_history explored
MaxShutdowns == 3
\* most state-change observers registered on a monitor used on its own
MaxObservers == 2

(* --------------------------- enumerations ----------------------------- *)
\* class SafetyState
NORMAL == "NORMAL"
WARNING == "WARNING"
FAULT == "FAULT"
SafetyState == {NORMAL, WARNING, FAULT, "SHUTDOWN"}

\* class FaultType
HP_OVERVOLTAGE == "HP_OVERVOLTAGE"
HP_UNDERVOLTAGE == "HP_UNDERVOLTAGE"
LP_OVERVOLTAGE == "LP_OVERVOLTAGE"
OVERCURRENT == "OVERCURRENT"
OVERTEMPERATURE == "OVERTEMPERATURE"
COMMUNICATION_FAILURE == "COMMUNICATION_FAILURE"
FaultType == {HP_OVERVOLTAGE, HP_UNDERVOLTAGE, LP_OVERVOLTAGE, OVERCURRENT,
              OVERTEMPERATURE, COMMUNICATION_FAILURE}

\* the description strings passed to _trigger_fault
DescFast == "fast_overcurrent"
DescSlow == "slow_overcurrent"
DescOverTemp == "overtemp_shutdown"
ReasonTempWarning == "overtemp_warning"

\* class SafetyThresholds: the dataclass defaults
DefaultThresholds ==
    [hp_over_voltage |-> 70, hp_under_voltage |-> 16, lp_over_voltage |-> 24,
     over_current_fast |-> 50, over_current_slow |-> 40,
     temp_warning |-> 100, temp_shutdown |-> 105, ntc_count |-> 2]

(* ------------------------------ values -------------------------------- *)
\* a Python list of temperatures, or None (list = FALSE)
TempList(vals) == [list |-> TRUE, vals |-> vals]
TempNone == [list |-> FALSE, vals |-> <<>>]

\* a measurements dict; empty = TRUE is the dict {}
Snapshot(hp, lp, cur, temps) ==
    [empty |-> FALSE, hp_voltage |-> hp, lp_voltage |-> lp,
     output_current |-> cur, temperatures |-> temps]
EmptyDict ==
    [empty |-> TRUE, hp_voltage |-> 0, lp_voltage |-> 0,
     output_current |-> 0, temperatures |-> TempList(<<0, 0>>)]

Range(s) == {s[i] : i \in DOMAIN s}
\* float('nan'), which a reading or a limit can be: the integer that
\* stands for it, and Python's comparisons, all False when NaN takes part
NaN == -999
Gt(a, b) == a # NaN /\ b # NaN /\ a > b
Lt(a, b) == a # NaN /\ b # NaN /\ a < b
Le(a, b) == a # NaN /\ b # NaN /\ a <= b
\* Python max() of a non-empty list: the first item, replaced by each later
\* item that compares greater
RECURSIVE MaxFrom(_, _, _)
MaxFrom(s, i, m) ==
    IF i > Len(s) THEN m
    ELSE MaxFrom(s, i + 1, IF Gt(s[i], m) THEN s[i] ELSE m)
Max(s) == MaxFrom(s, 2, s[1])
\* max(self.temperatures) raises: TypeError on None, ValueError on []
MaxRaises(t) == ~t.list \/ t.vals = <<>>

(* ------------------------------ state --------------------------------- *)
VARIABLES
    \* SafetyMonitor
    current_state, fault_history, fault_count,
    hp_voltage, lp_voltage, output_current, temperatures, thresholds,
    \* PowerManagement
    wired,              \* TRUE: the monitor is owned by a PowerManagement
    use_simulator, is_initialized, output_enabled, measurements,
    pm_fault_history,   \* PowerManagement.fault_history
    requires_en_restart,
    \* callbacks registered on a monitor used on its own
    fault_probes,       \* per fault type: "none", "probe" or "raiser"
    state_probes,       \* number of observers added with add_state_callback
    \* the instrument
    hw_output,
    \* observation of the last operation
    op, trace

vars == <<current_state, fault_history, fault_count, hp_voltage, lp_voltage,
          output_current, temperatures, thresholds, wired, use_simulator,
          is_initialized, output_enabled, measurements, pm_fault_history,
          requires_en_restart, fault_probes, state_probes, hw_output, op,
          trace>>

\* the objects' fields as one value, threaded through the method operators;
\* exc = an exception is propagating, drv = how the instrument answers
World(drv) ==
    [current_state |-> current_state, fault_history |-> fault_history,
     fault_count |-> fault_count, hp_voltage |-> hp_voltage,
     lp_voltage |-> lp_voltage, output_current |-> output_current,
     temperatures |-> temperatures, thresholds |-> thresholds,
     wired |-> wired, use_simulator |-> use_simulator,
     is_initialized |-> is_initialized, output_enabled |-> output_enabled,
     measurements |-> measurements, pm_fault_history |-> pm_fault_history,
     requires_en_restart |-> requires_en_restart,
     fault_probes |-> fault_probes, state_probes |-> state_probes,
     hw_output |-> hw_output,
     trace |-> <<>>, exc |-> FALSE, ret |-> "None", mret |-> EmptyDict,
     steps |-> <<>>, out |-> <<>>, drv |-> drv]

\* one entry of the record of what the last operation did
Event(ev, arg) == [ev |-> ev, arg |-> arg]
Log(w, ev, arg) == [w EXCEPT !.trace = Append(@, Event(ev, arg))]
Raise(w) == [w EXCEPT !.exc = TRUE]
Return(w, v) == [w EXCEPT !.ret = v]
\* statement sequencing: the rest of a method body, K, runs on the fields
\* w left by the statement before it
Then(w, K(_)) == K(w)

(* --------------------------- the instrument --------------------------- *)
\* How the instrument answers during one operation.  enable_output:
\* "ok" switches and returns True, "none" switches and returns None (as
\* PowerSupplyDriver.enable_output does), "false" returns False without
\* switching, "throw" raises.
EnableOutcomes == {"ok", "none", "false", "throw"}
SetOutcomes == {"ok", "false", "throw"}
MeasureOutcomes == {"ok", "throw"}
DrvOk == [enable_output |-> "ok", set_current_limit |-> "ok",
          set_voltage |-> "ok", measure |-> "ok"]
Drv(e, c, v, m) == [enable_output |-> e, set_current_limit |-> c,
                    set_voltage |-> v, measure |-> m]

BoolStr(b) == IF b THEN "True" ELSE "False"

\* ps_driver.enable_output(enable)
driver_enable_output(w, enable) ==
    LET w1 == Log(w, "driver.enable_output", BoolStr(enable))
        o == w.drv.enable_output
    IN  IF o = "throw" THEN Raise(w1)
        ELSE IF o = "false" THEN Return(w1, "False")
        ELSE Return([w1 EXCEPT !.hw_output = enable],
                    IF o = "ok" THEN "True" ELSE "None")

\* ps_driver.set_current_limit(current)
driver_set_current_limit(w, current) ==
    LET w1 == Log(w, "driver.set_current_limit", current)
        o == w.drv.set_current_limit
    IN  IF o = "throw" THEN Raise(w1)
        ELSE Return(w1, IF o = "ok" THEN "True" ELSE "False")

\* ps_driver.set_voltage(voltage, channel)
driver_set_voltage(w, voltage) ==
    LET w1 == Log(w, "driver.set_voltage", voltage)
        o == w.drv.set_voltage
    IN  IF o = "throw" THEN Raise(w1)
        ELSE Return(w1, IF o = "ok" THEN "True" ELSE "False")

\* Python truthiness of a returned value
Truthy(v) == v = "True"

(* ------------------- PowerManagement: shutdown path ------------------- *)
\* the current limit commanded by _safe_shutdown_sequence (0.1 A)
MinCurrentLimit == "0.1"

\* variant: the output is switched off first, the limit is lowered after
safe_shutdown_sequence_disable_first(w) ==
    Then(driver_enable_output(w, FALSE), LAMBDA w1 :
        IF w1.exc THEN w1
        ELSE Then(driver_set_current_limit(w1, MinCurrentLimit), LAMBDA w2 :
            IF w2.exc THEN w2
            ELSE [w2 EXCEPT !.output_enabled = FALSE]))

\* PowerManagement._safe_shutdown_sequence
safe_shutdown_sequence(w) ==
    Then(driver_set_current_limit(w, MinCurrentLimit), LAMBDA w1 :
        IF w1.exc THEN w1
        ELSE Then(driver_enable_output(w1, FALSE), LAMBDA w2 :
            IF w2.exc THEN w2
            ELSE [w2 EXCEPT !.output_enabled = FALSE]))

\* the record emergency_shutdown appends to PowerManagement.fault_history
\* (without the timestamp; the copy of self.measurements it carries is
\* kept out of the history and shown by RecordMeasurements instead)
ShutdownRecord(reason) == [reason |-> reason, state |-> "SHUTDOWN"]
\* 'measurements': self.measurements.copy() of the record being appended
RecordMeasurements(w) ==
    Log(w, "shutdown_record.measurements", ToString(w.measurements))

\* variant: the shutdown is staged whatever immediate says
emergency_shutdown_always_staged(w, reason, immediate) ==
    Then(Log(w, "emergency_shutdown",
             IF immediate THEN "immediate" ELSE "staged"), LAMBDA w0 :
    Then(safe_shutdown_sequence(w0), LAMBDA w1 :
        IF w1.exc
        THEN [w1 EXCEPT !.exc = FALSE, !.ret = "None"]
        ELSE [RecordMeasurements(w1)
                  EXCEPT !.output_enabled = FALSE,
                         !.pm_fault_history =
                             Append(@, ShutdownRecord(reason)),
                         !.ret = "None"]))

\* PowerManagement.emergency_shutdown
emergency_shutdown(w, reason, immediate) ==
    Then(Log(w, "emergency_shutdown",
             IF immediate THEN "immediate" ELSE "staged"), LAMBDA w0 :
    Then(IF immediate THEN driver_enable_output(w0, FALSE)
         ELSE safe_shutdown_sequence(w0), LAMBDA w1 :
        IF w1.exc
        THEN \* except Exception: logged, not re-raised
             [w1 EXCEPT !.exc = FALSE, !.ret = "None"]
        ELSE [RecordMeasurements(w1)
                  EXCEPT !.output_enabled = FALSE,
                         !.pm_fault_history =
                             Append(@, ShutdownRecord(reason)),
                         !.ret = "None"]))

\* PowerManagement._on_hp_over_voltage
on_hp_over_voltage(w, fault_info) ==
    emergency_shutdown(w, "hp_over_voltage_protection", FALSE)

\* PowerManagement._on_hp_under_voltage
on_hp_under_voltage(w, fault_info) ==
    emergency_shutdown(w, "hp_under_voltage_protection", FALSE)

\* PowerManagement._on_lp_over_voltage
on_lp_over_voltage(w, fault_info) ==
    emergency_shutdown(w, "lp_over_voltage_protection", FALSE)

\* variant: every over-current is shut down in stages
on_overcurrent_always_staged(w, fault_info) ==
    IF fault_info.description = DescFast
    THEN emergency_shutdown(w, "fast_overcurrent_protection", FALSE)
    ELSE emergency_shutdown(w, "slow_overcurrent_protection", FALSE)

\* PowerManagement._on_overcurrent: the fast tier is recognised by the
\* description of the fault record
on_overcurrent(w, fault_info) ==
    IF fault_info.description = DescFast
    THEN emergency_shutdown(w, "fast_overcurrent_protection", TRUE)
    ELSE emergency_shutdown(w, "slow_overcurrent_protection", FALSE)

\* PowerManagement._on_overtemperature
on_overtemperature(w, fault_info) ==
    LET w1 == emergency_shutdown(w, "overtemperature_protection", FALSE)
    IN  [w1 EXCEPT !.requires_en_restart = TRUE]

\* PowerManagement._on_communication_failure
on_communication_failure(w, fault_info) ==
    emergency_shutdown(w, "communication_failure", FALSE)

\* variant: every reported state shuts the output down
on_safety_state_change_any_state(w, new_state, reason) ==
    emergency_shutdown(w, "safety_monitor_triggered", FALSE)

\* PowerManagement._on_safety_state_change
on_safety_state_change(w, new_state, reason) ==
    IF new_state = FAULT
    THEN emergency_shutdown(w, "safety_monitor_triggered", FALSE)
    ELSE w

\* variant: no handler is registered for OVERCURRENT
fault_callbacks_no_overcurrent(w, fault_type, fault_info) ==
    CASE fault_type = HP_OVERVOLTAGE -> on_hp_over_voltage(w, fault_info)
      [] fault_type = HP_UNDERVOLTAGE -> on_hp_under_voltage(w, fault_info)
      [] fault_type = LP_OVERVOLTAGE -> on_lp_over_voltage(w, fault_info)
      [] fault_type = OVERCURRENT -> w
      [] fault_type = OVERTEMPERATURE -> on_overtemperature(w, fault_info)
      [] fault_type = COMMUNICATION_FAILURE ->
             on_communication_failure(w, fault_info)

\* PowerManagement._register_fault_callbacks: the handler of each type
fault_callbacks(w, fault_type, fault_info) ==
    CASE fault_type = HP_OVERVOLTAGE -> on_hp_over_voltage(w, fault_info)
      [] fault_type = HP_UNDERVOLTAGE -> on_hp_under_voltage(w, fault_info)
      [] fault_type = LP_OVERVOLTAGE -> on_lp_over_voltage(w, fault_info)
      [] fault_type = OVERCURRENT -> on_overcurrent(w, fault_info)
      [] fault_type = OVERTEMPERATURE -> on_overtemperature(w, fault_info)
      [] fault_type = COMMUNICATION_FAILURE ->
             on_communication_failure(w, fault_info)

(* --------------------------- SafetyMonitor ---------------------------- *)
\* a callback a client registered with add_fault_callback: it records the
\* record it is given and what the monitor shows at that moment (state,
\* whether the record is the newest of fault_history, fault_count); a
\* "raiser" then raises
probe_callback(w, fault_info) ==
    Then(Log(Log(Log(Log(Log(w, "fault_callback", fault_info.type),
                         "probe.description", fault_info.description),
                     "probe.state", w.current_state),
                 "probe.recorded",
                 BoolStr(/\ w.fault_history # <<>>
                         /\ w.fault_history[Len(w.fault_history)]
                                = fault_info)),
             "probe.count", ToString(w.fault_count)), LAMBDA w1 :
        IF w.fault_probes[fault_info.type] = "raiser" THEN Raise(w1)
        ELSE w1)

\* SafetyMonitor._notify_state_change: every registered observer is called,
\* what it raises is caught.  A PowerManagement registers
\* _on_safety_state_change; on a monitor used on its own the state_probes
\* observers each record the call.
notify_state_change(w, new_state, reason) ==
    IF w.wired
    THEN LET w1 == on_safety_state_change(
                       Log(w, "observer", new_state), new_state, reason)
         IN  [w1 EXCEPT !.exc = FALSE]
    ELSE [w EXCEPT !.trace =
              @ \o [i \in 1..w.state_probes |-> Event("observer", new_state)]]

\* SafetyMonitor._shutdown_output: logs only
shutdown_output(w) == w

\* variant: restoring switches the output back on, as the comment in
\* _restore_output says it should
restore_output_enables(w) ==
    [w EXCEPT !.output_enabled = TRUE, !.hw_output = TRUE]

\* SafetyMonitor._restore_output: logs only
restore_output(w) == w

\* SafetyMonitor._execute_protection_action
execute_protection_action(w, fault_type) ==
    IF fault_type \in {HP_OVERVOLTAGE, HP_UNDERVOLTAGE, LP_OVERVOLTAGE,
                       OVERCURRENT}
    THEN shutdown_output(w)
    ELSE IF fault_type = OVERTEMPERATURE THEN shutdown_output(w)
    ELSE w

\* the fault_info dict (timestamp and the copy of the measurements left out)
FaultInfo(fault_type, description) ==
    [type |-> fault_type, description |-> description]

\* variant: the fault is recorded but the state is left as it was
trigger_fault_keeps_state(w, fault_type, description) ==
    IF ~w.temperatures.list THEN Raise(w)
    ELSE [w EXCEPT !.fault_history =
                       Append(@, FaultInfo(fault_type, description)),
                   !.fault_count = @ + 1]

\* variant: the callback runs first, the record and the state follow
trigger_fault_callback_first(w, fault_type, description) ==
    IF ~w.temperatures.list THEN Raise(w)
    ELSE LET fault_info == FaultInfo(fault_type, description)
         IN  Then(IF w.fault_probes[fault_type] # "none"
                  THEN probe_callback(w, fault_info)
                  ELSE w, LAMBDA w1 :
                 IF w1.exc THEN w1
                 ELSE [w1 EXCEPT !.fault_history = Append(@, fault_info),
                                 !.fault_count = @ + 1,
                                 !.current_state = FAULT])

\* SafetyMonitor._trigger_fault; self.temperatures.copy() raises
\* AttributeError when temperatures is not a list
trigger_fault(w, fault_type, description) ==
    IF ~w.temperatures.list THEN Raise(w)
    ELSE LET fault_info == FaultInfo(fault_type, description)
         IN  Then([w EXCEPT !.fault_history = Append(@, fault_info),
                            !.fault_count = @ + 1,
                            !.current_state = FAULT], LAMBDA w1 :
             Then(IF w1.wired
                  THEN fault_callbacks(Log(w1, "fault_callback", fault_type),
                                       fault_type, fault_info)
                  ELSE IF w1.fault_probes[fault_type] # "none"
                  THEN probe_callback(w1, fault_info)
                  ELSE w1, LAMBDA w2 :
                 IF w2.exc THEN w2
                 ELSE execute_protection_action(w2, fault_type)))

\* variant: the limits themselves count as out of range
all_measurements_normal_strict(w) ==
    /\ Lt(w.thresholds.hp_under_voltage, w.hp_voltage)
    /\ Lt(w.hp_voltage, w.thresholds.hp_over_voltage)
    /\ Lt(w.lp_voltage, w.thresholds.lp_over_voltage)
    /\ Lt(w.output_current, w.thresholds.over_current_slow)
    /\ Lt(Max(w.temperatures.vals), w.thresholds.temp_warning)

\* variant: in range means not beyond a limit
all_measurements_normal_by_negation(w) ==
    /\ ~Lt(w.hp_voltage, w.thresholds.hp_under_voltage)
    /\ ~Gt(w.hp_voltage, w.thresholds.hp_over_voltage)
    /\ ~Gt(w.lp_voltage, w.thresholds.lp_over_voltage)
    /\ ~Gt(w.output_current, w.thresholds.over_current_slow)
    /\ ~Gt(Max(w.temperatures.vals), w.thresholds.temp_warning)

\* SafetyMonitor._all_measurements_normal
all_measurements_normal(w) ==
    /\ Le(w.thresholds.hp_under_voltage, w.hp_voltage)
    /\ Le(w.hp_voltage, w.thresholds.hp_over_voltage)
    /\ Le(w.lp_voltage, w.thresholds.lp_over_voltage)
    /\ Le(w.output_current, w.thresholds.over_current_slow)
    /\ Le(Max(w.temperatures.vals), w.thresholds.temp_warning)

\* variant: recovery also forgets the recorded faults
recover_from_fault_clears_history(w) ==
    restore_output([w EXCEPT !.current_state = NORMAL,
                             !.fault_history = <<>>,
                             !.fault_count = 0])

\* SafetyMonitor._recover_from_fault
recover_from_fault(w) ==
    restore_output([w EXCEPT !.current_state = NORMAL])

\* the rules from LP over-voltage down, shared by the variants below
rules_from_lp(w, fast_first) ==
    LET th == w.thresholds
    IN  IF Gt(w.lp_voltage, th.lp_over_voltage)
        THEN trigger_fault(w, LP_OVERVOLTAGE, "")
        ELSE IF fast_first /\ Gt(w.output_current, th.over_current_fast)
        THEN trigger_fault(w, OVERCURRENT, DescFast)
        ELSE IF Gt(w.output_current, th.over_current_slow)
        THEN trigger_fault(w, OVERCURRENT, DescSlow)
        ELSE IF Gt(w.output_current, th.over_current_fast)
        THEN trigger_fault(w, OVERCURRENT, DescFast)
        ELSE IF MaxRaises(w.temperatures) THEN Raise(w)
        ELSE IF Gt(Max(w.temperatures.vals), th.temp_shutdown)
        THEN trigger_fault(w, OVERTEMPERATURE, DescOverTemp)
        ELSE IF Gt(Max(w.temperatures.vals), th.temp_warning)
        THEN notify_state_change([w EXCEPT !.current_state = WARNING],
                                 WARNING, ReasonTempWarning)
        ELSE IF w.current_state = FAULT /\ all_measurements_normal(w)
        THEN recover_from_fault(w)
        ELSE w

\* variant: the HP checks and the remaining checks are two separate if
\* statements, so both can report
safety_rules_two_chains(w) ==
    LET th == w.thresholds
    IN  Then(IF Gt(w.hp_voltage, th.hp_over_voltage)
             THEN trigger_fault(w, HP_OVERVOLTAGE, "")
             ELSE IF Lt(w.hp_voltage, th.hp_under_voltage)
             THEN trigger_fault(w, HP_UNDERVOLTAGE, "")
             ELSE w, LAMBDA w1 :
            IF w1.exc THEN w1 ELSE rules_from_lp(w1, TRUE))

\* variant: the slow over-current tier is tested before the fast tier
safety_rules_slow_first(w) ==
    LET th == w.thresholds
    IN  IF Gt(w.hp_voltage, th.hp_over_voltage)
        THEN trigger_fault(w, HP_OVERVOLTAGE, "")
        ELSE IF Lt(w.hp_voltage, th.hp_under_voltage)
        THEN trigger_fault(w, HP_UNDERVOLTAGE, "")
        ELSE rules_from_lp(w, FALSE)

\* variant: the warning tier is reported as a fault
safety_rules_warning_faults(w) ==
    LET th == w.thresholds
    IN  IF Gt(w.hp_voltage, th.hp_over_voltage)
        THEN trigger_fault(w, HP_OVERVOLTAGE, "")
        ELSE IF Lt(w.hp_voltage, th.hp_under_voltage)
        THEN trigger_fault(w, HP_UNDERVOLTAGE, "")
        ELSE IF Gt(w.lp_voltage, th.lp_over_voltage)
        THEN trigger_fault(w, LP_OVERVOLTAGE, "")
        ELSE IF Gt(w.output_current, th.over_current_fast)
        THEN trigger_fault(w, OVERCURRENT, DescFast)
        ELSE IF Gt(w.output_current, th.over_current_slow)
        THEN trigger_fault(w, OVERCURRENT, DescSlow)
        ELSE IF MaxRaises(w.temperatures) THEN Raise(w)
        ELSE IF Gt(Max(w.temperatures.vals), th.temp_shutdown)
        THEN trigger_fault(w, OVERTEMPERATURE, DescOverTemp)
        ELSE IF Gt(Max(w.temperatures.vals), th.temp_warning)
        THEN trigger_fault(w, COMMUNICATION_FAILURE, ReasonTempWarning)
        ELSE IF w.current_state = FAULT /\ all_measurements_normal(w)
        THEN recover_from_fault(w)
        ELSE w

\* variant: no automatic recovery while the newest fault is an
\* over-temperature
safety_rules_lockout(w) ==
    LET th == w.thresholds
    IN  IF Gt(w.hp_voltage, th.hp_over_voltage)
        THEN trigger_fault(w, HP_OVERVOLTAGE, "")
        ELSE IF Lt(w.hp_voltage, th.hp_under_voltage)
        THEN trigger_fault(w, HP_UNDERVOLTAGE, "")
        ELSE IF Gt(w.lp_voltage, th.lp_over_voltage)
        THEN trigger_fault(w, LP_OVERVOLTAGE, "")
        ELSE IF Gt(w.output_current, th.over_current_fast)
        THEN trigger_fault(w, OVERCURRENT, DescFast)
        ELSE IF Gt(w.output_current, th.over_current_slow)
        THEN trigger_fault(w, OVERCURRENT, DescSlow)
        ELSE IF MaxRaises(w.temperatures) THEN Raise(w)
        ELSE IF Gt(Max(w.temperatures.vals), th.temp_shutdown)
        THEN trigger_fault(w, OVERTEMPERATURE, DescOverTemp)
        ELSE IF Gt(Max(w.temperatures.vals), th.temp_warning)
        THEN notify_state_change([w EXCEPT !.current_state = WARNING],
                                 WARNING, ReasonTempWarning)
        ELSE IF /\ w.current_state = FAULT
                /\ all_measurements_normal(w)
                /\ w.fault_history[Len(w.fault_history)].type
                       # OVERTEMPERATURE
        THEN recover_from_fault(w)
        ELSE w

\* variant: nominal readings also end a warning
safety_rules_recovers_from_warning(w) ==
    LET th == w.thresholds
    IN  IF Gt(w.hp_voltage, th.hp_over_voltage)
        THEN trigger_fault(w, HP_OVERVOLTAGE, "")
        ELSE IF Lt(w.hp_voltage, th.hp_under_voltage)
        THEN trigger_fault(w, HP_UNDERVOLTAGE, "")
        ELSE IF Gt(w.lp_voltage, th.lp_over_voltage)
        THEN trigger_fault(w, LP_OVERVOLTAGE, "")
        ELSE IF Gt(w.output_current, th.over_current_fast)
        THEN trigger_fault(w, OVERCURRENT, DescFast)
        ELSE IF Gt(w.output_current, th.over_current_slow)
        THEN trigger_fault(w, OVERCURRENT, DescSlow)
        ELSE IF MaxRaises(w.temperatures) THEN Raise(w)
        ELSE IF Gt(Max(w.temperatures.vals), th.temp_shutdown)
        THEN trigger_fault(w, OVERTEMPERATURE, DescOverTemp)
        ELSE IF Gt(Max(w.temperatures.vals), th.temp_warning)
        THEN notify_state_change([w EXCEPT !.current_state = WARNING],
                                 WARNING, ReasonTempWarning)
        ELSE IF w.current_state # NORMAL /\ all_measurements_normal(w)
        THEN recover_from_fault(w)
        ELSE w

\* the elif chain of SafetyMonitor._perform_safety_checks
safety_rules(w) ==
    LET th == w.thresholds
    IN  IF Gt(w.hp_voltage, th.hp_over_voltage)
        THEN trigger_fault(w, HP_OVERVOLTAGE, "")
        ELSE IF Lt(w.hp_voltage, th.hp_under_voltage)
        THEN trigger_fault(w, HP_UNDERVOLTAGE, "")
        ELSE IF Gt(w.lp_voltage, th.lp_over_voltage)
        THEN trigger_fault(w, LP_OVERVOLTAGE, "")
        ELSE IF Gt(w.output_current, th.over_current_fast)
        THEN trigger_fault(w, OVERCURRENT, DescFast)
        ELSE IF Gt(w.output_current, th.over_current_slow)
        THEN trigger_fault(w, OVERCURRENT, DescSlow)
        ELSE IF MaxRaises(w.temperatures) THEN Raise(w)
        ELSE IF Gt(Max(w.temperatures.vals), th.temp_shutdown)
        THEN trigger_fault(w, OVERTEMPERATURE, DescOverTemp)
        ELSE IF Gt(Max(w.temperatures.vals), th.temp_warning)
        THEN notify_state_change([w EXCEPT !.current_state = WARNING],
                                 WARNING, ReasonTempWarning)
        ELSE IF w.current_state = FAULT /\ all_measurements_normal(w)
        THEN recover_from_fault(w)
        ELSE w

\* variant: the observers are told after every evaluation
perform_safety_checks_always_notifies(w) ==
    Then(safety_rules(w), LAMBDA w1 :
        IF w1.exc THEN w1
        ELSE notify_state_change(w1, w1.current_state, ""))

\* SafetyMonitor._perform_safety_checks
perform_safety_checks(w) ==
    LET previous_state == w.current_state
    IN  Then(safety_rules(w), LAMBDA w1 :
            IF w1.exc THEN w1
            ELSE IF w1.current_state # previous_state
            THEN notify_state_change(w1, w1.current_state, "")
            ELSE w1)

\* SafetyMonitor.update_measurements; m is a measurements dict
update_measurements(w, m) ==
    Then([w EXCEPT !.hp_voltage = m.hp_voltage,
                   !.lp_voltage = m.lp_voltage,
                   !.output_current = m.output_current,
                   !.temperatures = m.temperatures], LAMBDA w1 :
    Then(perform_safety_checks(w1), LAMBDA w2 :
        IF w2.exc
        THEN \* except Exception: the handler itself may raise
             trigger_fault([w2 EXCEPT !.exc = FALSE],
                           COMMUNICATION_FAILURE, "")
        ELSE w2))

\* get_safety_status: how many of the newest records are reported
RecentFaults == 5

\* SafetyMonitor.add_fault_callback: one callback per type, the latest wins
add_fault_callback(w, fault_type, callback) ==
    [w EXCEPT !.fault_probes[fault_type] = callback]

\* SafetyMonitor.add_state_callback
add_state_callback(w) == [w EXCEPT !.state_probes = @ + 1]

\* variant: recent_faults are the five oldest records
get_safety_status_first_five(w) ==
    [w EXCEPT !.ret = w.current_state,
              !.out = SubSeq(w.fault_history, 1,
                             IF Len(w.fault_history) < RecentFaults
                             THEN Len(w.fault_history) ELSE RecentFaults)]

\* SafetyMonitor.get_safety_status: recent_faults is fault_history[-5:]
get_safety_status(w) ==
    [w EXCEPT !.ret = w.current_state,
              !.out = SubSeq(w.fault_history,
                             IF Len(w.fault_history) < RecentFaults
                             THEN 1
                             ELSE Len(w.fault_history) - RecentFaults + 1,
                             Len(w.fault_history))]

\* SafetyMonitor.configure_thresholds: recognised keys are set, others
\* are skipped; nothing is validated
configure_thresholds(w, new_thresholds) ==
    [w EXCEPT !.thresholds =
        [k \in DOMAIN w.thresholds |->
            IF k \in DOMAIN new_thresholds THEN new_thresholds[k]
            ELSE w.thresholds[k]]]

(* ----------------------- PowerManagement ------------------------------ *)
\* variant: the answer of the instrument is not looked at
enable_output_assumes_success(w, enable) ==
    IF ~w.is_initialized THEN Return(w, "False")
    ELSE Then(driver_enable_output(w, enable), LAMBDA w1 :
             IF w1.exc
             THEN [w1 EXCEPT !.exc = FALSE, !.ret = "False"]
             ELSE [w1 EXCEPT !.output_enabled = enable])

\* PowerManagement.enable_output
enable_output(w, enable) ==
    IF ~w.is_initialized THEN Return(w, "False")
    ELSE Then(driver_enable_output(w, enable), LAMBDA w1 :
             IF w1.exc
             THEN [w1 EXCEPT !.exc = FALSE, !.ret = "False"]
             ELSE IF Truthy(w1.ret)
             THEN [w1 EXCEPT !.output_enabled = enable]
             ELSE w1)

\* variant: only the initialisation is checked
safety_check_before_operation_init_only(w) ==
    IF ~w.is_initialized THEN FALSE ELSE TRUE

\* PowerManagement._safety_check_before_operation
safety_check_before_operation(w) ==
    IF ~w.is_initialized THEN FALSE
    ELSE IF w.current_state = FAULT THEN FALSE
    ELSE TRUE

\* PowerManagement._read_temperatures: the lists it can return.  The
\* simulator branch draws base 25 (plus 10..30 when the output is on) and
\* +-2 per sensor; the hardware branch returns [25.0, 25.0].
read_temperatures(sim, out) ==
    IF sim
    THEN IF out
         THEN {TempList(<<33, 37>>)}
         ELSE {TempList(<<23, 27>>)}
    ELSE {TempList(<<25, 25>>)}

\* what the instrument can read back (HP voltage, LP voltage, current):
\* nominal, or one quantity off at a time
ElectricalReadings ==
    { <<70, 14, 40>>, <<71, 14, 40>>, <<70, 14, 51>>, <<70, 12, 40>> }
Readings(sim, out) ==
    {Snapshot(e[1], e[2], e[3], t) :
        e \in ElectricalReadings, t \in read_temperatures(sim, out)}

\* variant: the monitor is updated and the readings are kept, but the
\* caller is handed a dict of zeros
measure_parameters_returns_zeros(w, r) ==
    Then(Log(w, "driver.measure", ""), LAMBDA w0 :
        IF w.drv.measure = "throw"
        THEN [w0 EXCEPT !.mret = EmptyDict]
        ELSE Then(update_measurements(w0, r), LAMBDA w1 :
                 IF w1.exc
                 THEN [w1 EXCEPT !.exc = FALSE, !.mret = EmptyDict]
                 ELSE [w1 EXCEPT !.measurements = r,
                                 !.mret = [EmptyDict EXCEPT !.empty = FALSE]]))

\* PowerManagement.measure_parameters; r is what the instrument and
\* _read_temperatures deliver in this cycle
measure_parameters(w, r) ==
    Then(Log(w, "driver.measure", ""), LAMBDA w0 :
        IF w.drv.measure = "throw"
        THEN [w0 EXCEPT !.mret = EmptyDict]
        ELSE Then(update_measurements(w0, r), LAMBDA w1 :
                 IF w1.exc
                 THEN [w1 EXCEPT !.exc = FALSE, !.mret = EmptyDict]
                 ELSE [w1 EXCEPT !.measurements = r, !.mret = r]))

\* PowerManagement._update_measurements
pm_update_measurements(w, r) ==
    Then(measure_parameters(w, r), LAMBDA w1 :
        update_measurements(w1, w1.mret))

\* PowerManagement.set_voltage
set_voltage(w, voltage, r) ==
    IF ~safety_check_before_operation(w) THEN Return(w, "False")
    ELSE Then(driver_set_voltage(w, voltage), LAMBDA w1 :
             IF w1.exc THEN [w1 EXCEPT !.exc = FALSE, !.ret = "False"]
             ELSE IF Truthy(w1.ret)
             THEN Then(pm_update_measurements(w1, r), LAMBDA w2 :
                      IF w2.exc
                      THEN [w2 EXCEPT !.exc = FALSE, !.ret = "False"]
                      ELSE Return(w2, "True"))
             ELSE w1)

\* PowerManagement.set_current_limit
set_current_limit(w, current) ==
    Then(driver_set_current_limit(w, current), LAMBDA w1 :
        IF w1.exc THEN [w1 EXCEPT !.exc = FALSE, !.ret = "False"]
        ELSE w1)

\* perform_startup_test: the limit on the startup time (ms), the target
\* output voltage (V)
StartupLimitMs == 40
TargetVoltage == 14
Abs(x) == IF x < 0 THEN -x ELSE x
\* abs(output_voltage - target_voltage) / target_voltage < 0.1
VoltageInTolerance(v) == 10 * Abs(v - TargetVoltage) < TargetVoltage
PassFail(b) == IF b THEN "PASS" ELSE "FAIL"

\* variant: the state of the monitor is not part of the verdict
perform_startup_test_ignores_state(w, latency, r) ==
    Then(enable_output(w, TRUE), LAMBDA w1 :
    Then(measure_parameters(w1, r), LAMBDA w2 :
        LET output_voltage == w2.mret.lp_voltage
            success == /\ latency < StartupLimitMs
                       /\ VoltageInTolerance(output_voltage)
        IN  [w2 EXCEPT !.ret = PassFail(success),
                       !.steps =
                           << PassFail(latency < StartupLimitMs),
                              PassFail(VoltageInTolerance(output_voltage)) >>]))

\* PowerManagement.perform_startup_test; latency is the time (ms) the clock
\* shows between the start of the test and the end of the enable step
perform_startup_test(w, latency, r) ==
    Then(enable_output(w, TRUE), LAMBDA w1 :
    Then(measure_parameters(w1, r), LAMBDA w2 :
        LET output_voltage == w2.mret.lp_voltage
            success == /\ latency < StartupLimitMs
                       /\ VoltageInTolerance(output_voltage)
                       /\ w2.current_state = NORMAL
        IN  [w2 EXCEPT !.ret = PassFail(success),
                       !.steps =
                           << PassFail(latency < StartupLimitMs),
                              PassFail(VoltageInTolerance(output_voltage)) >>]))

\* One point of perform_voltage_sweep_test: set the voltage, (dwell,) measure,
\* and add one result with the target voltage and the measured current,
\* also when the voltage could not be set.
sweep_point(w, target_voltage, r) ==
    Then(set_voltage(w, ToString(target_voltage), r), LAMBDA w1 :
    Then(measure_parameters([w1 EXCEPT !.steps =
                                 << PassFail(w1.ret = "True") >>], r),
         LAMBDA w2 :
        [w2 EXCEPT !.out = Append(@, [target_voltage |-> target_voltage,
                                      current |-> w2.mret.output_current,
                                      status |-> w2.steps[1]]),
                   !.steps = <<>>, !.ret = "None"]))

\* the points from v on: v, v + delta, ... as long as end_v is not passed
RECURSIVE sweep_from(_, _, _, _, _)
sweep_from(w, v, end_v, delta, r) ==
    IF (delta > 0 /\ v > end_v) \/ (delta < 0 /\ v < end_v) THEN w
    ELSE Then(sweep_point(w, v, r), LAMBDA w1 :
             sweep_from(w1, v + delta, end_v, delta, r))

\* PowerManagement.perform_voltage_sweep_test(start_v, end_v, step_v,
\* dwell_time): from start_v to end_v inclusive, upwards or downwards as
\* end_v lies, in steps of the size of step_v
perform_voltage_sweep_test(w, start_v, end_v, step_v, r) ==
    sweep_from(w, start_v, end_v,
               IF end_v >= start_v THEN Abs(step_v) ELSE 0 - Abs(step_v), r)

\* PowerManagement.cleanup (also what __del__ runs)
cleanup(w) ==
    Then(IF w.output_enabled THEN enable_output(w, FALSE) ELSE w,
         LAMBDA w1 : [w1 EXCEPT !.exc = FALSE, !.ret = "None"])

(* --------------------------- operations ------------------------------- *)
Last(s) == s[Len(s)]

\* what the last operation was and the state it started from; args holds
\* the numeric arguments of the operations that have some, out the list an
\* operation returned
Observe(name, arg, drv, w) ==
    [name |-> name, arg |-> arg, args |-> <<>>, drv |-> drv, ret |-> w.ret,
     steps |-> w.steps, out |-> w.out, raised |-> w.exc,
     prev_state |-> current_state,
     prev_len |-> Len(fault_history),
     prev_count |-> fault_count,
     prev_out |-> output_enabled,
     prev_pm_len |-> Len(pm_fault_history)]

NoOp ==
    [name |-> "init", arg |-> "", args |-> <<>>, drv |-> DrvOk,
     ret |-> "None", steps |-> <<>>, out |-> <<>>, raised |-> FALSE,
     prev_state |-> NORMAL, prev_len |-> 0,
     prev_count |-> 0, prev_out |-> FALSE,
     prev_pm_len |-> 0]

\* the fields after the call
Store(w) ==
    /\ current_state' = w.current_state
    /\ fault_history' = w.fault_history
    /\ fault_count' = w.fault_count
    /\ hp_voltage' = w.hp_voltage
    /\ lp_voltage' = w.lp_voltage
    /\ output_current' = w.output_current
    /\ temperatures' = w.temperatures
    /\ thresholds' = w.thresholds
    /\ wired' = w.wired
    /\ use_simulator' = w.use_simulator
    /\ is_initialized' = w.is_initialized
    /\ output_enabled' = w.output_enabled
    /\ measurements' = w.measurements
    /\ pm_fault_history' = w.pm_fault_history
    /\ requires_en_restart' = w.requires_en_restart
    /\ fault_probes' = w.fault_probes
    /\ state_probes' = w.state_probes
    /\ hw_output' = w.hw_output
    /\ trace' = w.trace

\* the fields after the call; histories stay within the explored lengths
Commit(w) ==
    /\ Len(w.fault_history) <= MaxFaults
    /\ Len(w.pm_fault_history) <= MaxShutdowns
    /\ Store(w)

\* SafetyMonitor.__init__ (and PowerManagement.__init__ when owned);
\* initialized is what PowerManagement.__init__ has made of is_initialized
InitObject(owned, sim, initialized) ==
    /\ current_state = NORMAL
    /\ fault_history = <<>>
    /\ fault_count = 0
    /\ hp_voltage = 0
    /\ lp_voltage = 0
    /\ output_current = 0
    /\ temperatures = TempList(<<0, 0>>)
    /\ thresholds = DefaultThresholds
    /\ wired = owned
    /\ use_simulator = sim
    /\ is_initialized = initialized
    /\ output_enabled = FALSE
    /\ measurements = EmptyDict
    /\ pm_fault_history = <<>>
    /\ requires_en_restart = FALSE
    /\ fault_probes = [t \in FaultType |-> "none"]
    /\ state_probes = 0
    /\ hw_output = FALSE
    /\ op = NoOp
    /\ trace = <<>>

\* a constructed object
InitFields(owned, sim) == InitObject(owned, sim, owned)

(* ------------------- a SafetyMonitor used on its own ------------------ *)
\* the snapshots fed to a standalone monitor: every combination of
HpValues == {15, 16, 71}
LpValues == {24, 25}
CurValues == {40, 51}
TempValues == {TempList(<<100, 25>>), TempList(<<25, 106>>),
               TempList(<<>>), TempNone}
Snapshots ==
    {Snapshot(hp, lp, cur, t) :
        hp \in HpValues, lp \in LpValues, cur \in CurValues, t \in TempValues}

\* create_safety_monitor: doc_thresholds
DocThresholds ==
    [hp_over_voltage |-> 70, hp_under_voltage |-> 16, lp_over_voltage |-> 24,
     temp_warning |-> 100, temp_shutdown |-> 105, ntc_count |-> 2]
\* limits moved onto the values above (71 V, 15 V, 51 A and 106 degC become
\* boundary values), with a key SafetyThresholds does not have
Relaxed ==
    [hp_over_voltage |-> 71, hp_under_voltage |-> 15, over_current_fast |-> 51,
     temp_shutdown |-> 106, sampling_interval |-> 1]
ThresholdOverrides == {DocThresholds, Relaxed}

\* monitor.update_measurements(m)
UpdateMeasurements ==
    \E m \in Snapshots :
        \E w \in {update_measurements(World(DrvOk), m)} :
            /\ Commit(w)
            /\ op' = Observe("update_measurements", "", DrvOk, w)

\* monitor.configure_thresholds(new_thresholds)
ConfigureThresholds ==
    \E o \in ThresholdOverrides :
        \E w \in {configure_thresholds(World(DrvOk), o)} :
            /\ Commit(w)
            /\ op' = Observe("configure_thresholds", "", DrvOk, w)

InitMon == InitFields(FALSE, FALSE)
NextMon == UpdateMeasurements \/ ConfigureThresholds
SpecMon == InitMon /\ [][NextMon]_vars

(* ------------------- properties of the monitor alone ------------------ *)
\* the last operation was an update_measurements call that returned
Updated == op.name = "update_measurements" /\ ~op.raised
\* the type of the newest fault before the last operation ("none" if none)
PrevLastType ==
    IF op.prev_len = 0 THEN "none" ELSE fault_history[op.prev_len].type
\* the records the last operation appended
Appended == SubSeq(fault_history, op.prev_len + 1, Len(fault_history))
\* the snapshot of the last update, as stored in the monitor's fields
IsList == temperatures.list
WellFormed == temperatures.list /\ temperatures.vals # <<>>
Nominal ==
    /\ WellFormed
    /\ thresholds.hp_under_voltage <= hp_voltage
    /\ hp_voltage <= thresholds.hp_over_voltage
    /\ lp_voltage <= thresholds.lp_over_voltage
    /\ output_current <= thresholds.over_current_slow
    /\ \A i \in DOMAIN temperatures.vals :
           temperatures.vals[i] <= thresholds.temp_warning

\* C1: after update_measurements with a snapshot whose hp_voltage exceeds
\* hp_over_voltage (temperatures being a list), whatever the state before,
\* the state is FAULT and the newest fault record is HP_OVERVOLTAGE.
C1_HpOverVoltageFaults ==
    (op.name = "update_measurements" /\ IsList
        /\ hp_voltage > thresholds.hp_over_voltage)
    => /\ ~op.raised
       /\ current_state = FAULT
       /\ fault_history # <<>>
       /\ Last(fault_history).type = HP_OVERVOLTAGE

\* C1 witness: an HP over-voltage snapshot was evaluated while the monitor
\* was already in FAULT from a different fault.
C1_Witness ==
    /\ Updated /\ IsList /\ hp_voltage > thresholds.hp_over_voltage
    /\ op.prev_state = FAULT /\ PrevLastType = OVERCURRENT
    /\ current_state = FAULT

\* C2: a snapshot over both the HP over-voltage limit and the fast
\* over-current limit appends exactly one record, HP_OVERVOLTAGE, and
\* raises fault_count by exactly one.
C2_OneRecordForTwoViolations ==
    (op.name = "update_measurements" /\ IsList
        /\ hp_voltage > thresholds.hp_over_voltage
        /\ output_current > thresholds.over_current_fast)
    => /\ Len(fault_history) = op.prev_len + 1
       /\ Last(fault_history).type = HP_OVERVOLTAGE
       /\ fault_count = op.prev_count + 1

\* C2 witness: such a snapshot was evaluated on a monitor that already held
\* a record.
C2_Witness ==
    /\ Updated /\ IsList
    /\ hp_voltage > thresholds.hp_over_voltage
    /\ output_current > thresholds.over_current_fast
    /\ op.prev_len = 1 /\ Len(fault_history) = 2

\* the six fault rules in their fixed order, on the evaluated snapshot
RuleMatches(i) ==
    CASE i = 1 -> hp_voltage > thresholds.hp_over_voltage
      [] i = 2 -> hp_voltage < thresholds.hp_under_voltage
      [] i = 3 -> lp_voltage > thresholds.lp_over_voltage
      [] i = 4 -> output_current > thresholds.over_current_fast
      [] i = 5 -> output_current > thresholds.over_current_slow
      [] i = 6 -> \E k \in DOMAIN temperatures.vals :
                     temperatures.vals[k] > thresholds.temp_shutdown
RuleRecord ==
    << FaultInfo(HP_OVERVOLTAGE, ""), FaultInfo(HP_UNDERVOLTAGE, ""),
       FaultInfo(LP_OVERVOLTAGE, ""), FaultInfo(OVERCURRENT, DescFast),
       FaultInfo(OVERCURRENT, DescSlow),
       FaultInfo(OVERTEMPERATURE, DescOverTemp) >>
Matching == {i \in 1..6 : RuleMatches(i)}
FirstMatching == CHOOSE i \in Matching : \A j \in Matching : i <= j

\* C3: for a well-formed snapshot, one update_measurements call appends at
\* most one record: that of the first matching rule in the fixed order, and
\* none when no rule matches.
C3_FirstMatchWins ==
    (op.name = "update_measurements" /\ WellFormed)
    => /\ ~op.raised
       /\ IF Matching = {}
          THEN Appended = <<>>
          ELSE Appended = << RuleRecord[FirstMatching] >>

\* C3 witness: the fast over-current rule won over the slow tier and the
\* over-temperature rule, which matched too.
C3_Witness ==
    /\ Updated /\ WellFormed
    /\ Matching = {4, 5, 6}
    /\ Appended = << FaultInfo(OVERCURRENT, DescFast) >>
    /\ op.prev_len = 1

\* C4: in FAULT with HP_OVERVOLTAGE as the most recent fault, one
\* update_measurements call with a nominal snapshot leaves the state NORMAL
\* and adds no record.
C4_AutoRecovery ==
    (op.name = "update_measurements" /\ op.prev_state = FAULT
        /\ PrevLastType = HP_OVERVOLTAGE /\ Nominal)
    => /\ ~op.raised
       /\ current_state = NORMAL
       /\ Appended = <<>>

\* C4 witness: a nominal snapshot was evaluated in FAULT after an HP
\* over-voltage, and the monitor is NORMAL.
C4_Witness ==
    /\ Updated /\ op.prev_state = FAULT
    /\ PrevLastType = HP_OVERVOLTAGE /\ Nominal
    /\ current_state = NORMAL

\* C5: in FAULT with OVERTEMPERATURE as the most recent fault, an
\* update_measurements call with a nominal snapshot does not return the
\* state to NORMAL: it stays FAULT.
C5_OverTemperatureLockout ==
    (op.name = "update_measurements" /\ op.prev_state = FAULT
        /\ PrevLastType = OVERTEMPERATURE /\ Nominal)
    => current_state = FAULT

(* ------------------ a PowerManagement and its monitor ----------------- *)
\* The instrument honours its contract in the calls an operation makes on
\* the way, and answers the call the operation is about in every way.
DrvEnable(e) == Drv(e, "ok", "ok", "ok")
DrvCurrentLimit(c) == Drv("ok", c, "ok", "ok")
DrvVoltage(v) == Drv("ok", "ok", v, "ok")
DrvMeasure(m) == Drv("ok", "ok", "ok", m)

\* limits that the readings of the instrument and of the simulated
\* sensors can cross
Lowered ==
    [over_current_fast |-> 51, temp_warning |-> 27, temp_shutdown |-> 33]
PmThresholdOverrides == {Lowered}

Voltages == {"14"}
CurrentLimits == {"10"}
Latencies == {25, 55}
\* the reading of a cycle in which no reading is taken
NoReading == EmptyDict

\* pm.enable_output(enable)
EnableOutput ==
    \E enable \in BOOLEAN, e \in EnableOutcomes :
        \E w \in {enable_output(World(DrvEnable(e)), enable)} :
            /\ Commit(w)
            /\ op' = Observe("enable_output", BoolStr(enable),
                              DrvEnable(e), w)

\* pm.set_voltage(voltage)
SetVoltage ==
    \E v \in Voltages, o \in SetOutcomes :
        \E r \in IF o = "ok" /\ safety_check_before_operation(World(DrvOk))
                  THEN Readings(use_simulator, output_enabled)
                  ELSE {NoReading} :
            \E w \in {set_voltage(World(DrvVoltage(o)), v, r)} :
                /\ Commit(w)
                /\ op' = Observe("set_voltage", v, DrvVoltage(o), w)

\* pm.set_current_limit(current)
SetCurrentLimit ==
    \E c \in CurrentLimits, o \in SetOutcomes :
        \E w \in {set_current_limit(World(DrvCurrentLimit(o)), c)} :
            /\ Commit(w)
            /\ op' = Observe("set_current_limit", c, DrvCurrentLimit(o), w)

\* pm.measure_parameters()
MeasureParameters ==
    \E o \in MeasureOutcomes :
        \E r \in IF o = "ok" THEN Readings(use_simulator, output_enabled)
                  ELSE {NoReading} :
            \E w \in {measure_parameters(World(DrvMeasure(o)), r)} :
                /\ Commit(w)
                /\ op' = Observe("measure_parameters", "", DrvMeasure(o), w)

\* pm.emergency_shutdown(immediate=...)
EmergencyShutdown ==
    \E immediate \in BOOLEAN :
        \E w \in {emergency_shutdown(World(DrvOk), "emergency_shutdown",
                                      immediate)} :
            /\ Commit(w)
            /\ op' = Observe("emergency_shutdown",
                              IF immediate THEN "immediate" ELSE "staged",
                              DrvOk, w)

\* pm.perform_startup_test()
PerformStartupTest ==
    \E latency \in Latencies, e \in {"ok", "false"} :
        \E w1 \in {enable_output(World(DrvEnable(e)), TRUE)} :
            \E r \in Readings(use_simulator, w1.output_enabled) :
                \E w \in {perform_startup_test(World(DrvEnable(e)),
                                                latency, r)} :
                    /\ Commit(w)
                    /\ op' = Observe("perform_startup_test", "",
                                      DrvEnable(e), w)

\* pm.safety_monitor.configure_thresholds(new_thresholds)
PmConfigureThresholds ==
    \E o \in PmThresholdOverrides :
        \E w \in {configure_thresholds(World(DrvOk), o)} :
            /\ Commit(w)
            /\ op' = Observe("configure_thresholds", "", DrvOk, w)

\* PowerManagement(use_simulator=True)
InitPm == InitFields(TRUE, TRUE)
NextPm ==
    \/ EnableOutput
    \/ SetVoltage
    \/ SetCurrentLimit
    \/ MeasureParameters
    \/ EmergencyShutdown
    \/ PerformStartupTest
    \/ PmConfigureThresholds
SpecPm == InitPm /\ [][NextPm]_vars

(* ------------------- properties of the controller --------------------- *)
\* the positions in the record of the last operation of a call ev(arg)
Calls(ev, arg) == {i \in DOMAIN trace : trace[i] = Event(ev, arg)}

C7_FaultImpliesOutputOff ==
    (op.drv = DrvOk /\ current_state = FAULT) => output_enabled = FALSE

\* C8: set_voltage called while the monitor is in FAULT returns False, makes
\* no driver call, runs no measurement cycle and changes neither the
\* monitor nor output_enabled.
C8_SetVoltageRefusedInFault ==
    [][(current_state = FAULT /\ op'.name = "set_voltage")
        => /\ op'.ret = "False"
           /\ trace' = <<>>
           /\ UNCHANGED <<current_state, fault_history, fault_count,
                          hp_voltage, lp_voltage, output_current,
                          temperatures, thresholds, output_enabled,
                          measurements, pm_fault_history, hw_output>>]_vars

\* C8 witness: set_voltage was refused in FAULT while the output was on.
C8_Witness ==
    /\ op.name = "set_voltage" /\ op.prev_state = FAULT
    /\ current_state = FAULT /\ op.ret = "False" /\ trace = <<>>
    /\ output_enabled = TRUE

\* C9: set_current_limit called while the monitor is in FAULT returns False
\* and makes no driver set_current_limit call.
C9_SetCurrentLimitRefusedInFault ==
    (op.name = "set_current_limit" /\ op.prev_state = FAULT)
    => /\ op.ret = "False"
       /\ \A i \in DOMAIN trace : trace[i].ev # "driver.set_current_limit"

ProbeTypes == {HP_OVERVOLTAGE, COMMUNICATION_FAILURE}
ProbeKinds == {"probe", "raiser"}
\* snapshots: nominal, warm (over temp_warning only), empty temperature
\* list, temperatures None, HP over-voltage (with a list and with None),
\* fast over-current
ProbeSnapshots ==
    { Snapshot(16, 24, 40, TempList(<<100, 25>>)),
      Snapshot(16, 24, 40, TempList(<<25, 101>>)),
      Snapshot(16, 24, 40, TempList(<<>>)),
      Snapshot(16, 24, 40, TempNone),
      Snapshot(71, 24, 40, TempList(<<100, 25>>)),
      Snapshot(71, 24, 40, TempNone),
      Snapshot(16, 24, 51, TempList(<<100, 25>>)) }

\* monitor.add_fault_callback(fault_type, callback)
AddFaultCallback ==
    \E t \in ProbeTypes, k \in ProbeKinds :
        \E w \in {add_fault_callback(World(DrvOk), t, k)} :
            /\ Commit(w)
            /\ op' = Observe("add_fault_callback", t, DrvOk, w)

\* monitor.add_state_callback(callback)
AddStateCallback ==
    /\ state_probes < MaxObservers
    /\ \E w \in {add_state_callback(World(DrvOk))} :
            /\ Commit(w)
            /\ op' = Observe("add_state_callback", "", DrvOk, w)

\* monitor.update_measurements(m) with the callbacks in place
ProbedUpdate ==
    \E m \in ProbeSnapshots :
        \E w \in {update_measurements(World(DrvOk), m)} :
            /\ Commit(w)
            /\ op' = Observe("update_measurements", "", DrvOk, w)

InitProbe == InitFields(FALSE, FALSE)
NextProbe == AddFaultCallback \/ AddStateCallback \/ ProbedUpdate
SpecProbe == InitProbe /\ [][NextProbe]_vars

(* --------------- properties of the callbacks of a monitor ------------- *)
\* the positions in the record of the last operation where the callback of
\* fault type t was entered
CallbackCalls(t) == Calls("fault_callback", t)
AllCallbackCalls == {i \in DOMAIN trace : trace[i].ev = "fault_callback"}
\* the appended records whose type has a callback registered
Probed == {n \in DOMAIN Appended : fault_probes[Appended[n].type] # "none"}

\* C14: every fault record appended by update_measurements whose type has a
\* callback registered is handed to that callback exactly once during the
\* call, and the callback then sees current_state FAULT, the record as the
\* newest of fault_history and fault_count already raised; no other
\* callback runs; a fault whose type has no callback is recorded all the
\* same.
C14_CallbackOncePerFault ==
    (op.name = "update_measurements")
    => /\ Cardinality(AllCallbackCalls) = Cardinality(Probed)
       /\ \A n \in Probed :
             /\ Cardinality(CallbackCalls(Appended[n].type)) = 1
             /\ \A i \in CallbackCalls(Appended[n].type) :
                   /\ trace[i + 1]
                        = Event("probe.description", Appended[n].description)
                   /\ trace[i + 2] = Event("probe.state", FAULT)
                   /\ trace[i + 3] = Event("probe.recorded", "True")
                   /\ trace[i + 4]
                        = Event("probe.count", ToString(op.prev_count + n))
       /\ (WellFormed /\ Matching # {})
             => /\ Appended # <<>>
                /\ Appended[1] = RuleRecord[FirstMatching]

\* C14 witness: an HP over-voltage was handed to its callback on a monitor
\* that already held a record.
C14_Witness ==
    /\ Updated /\ op.prev_len = 1
    /\ Appended = << FaultInfo(HP_OVERVOLTAGE, "") >>
    /\ fault_probes[HP_OVERVOLTAGE] = "probe"
    /\ Cardinality(CallbackCalls(HP_OVERVOLTAGE)) = 1

\* a fast over-current, for which no callback is registered, was recorded
\* without any callback running
C14_Unregistered ==
    /\ Updated /\ Appended = << FaultInfo(OVERCURRENT, DescFast) >>
    /\ AllCallbackCalls = {}

\* C15: whenever current_state after update_measurements differs from the
\* state before the call, every registered state-change observer was
\* called during that call with the new state.
C15_ObserversSeeEveryChange ==
    (op.name = "update_measurements" /\ current_state # op.prev_state)
    => Cardinality(Calls("observer", current_state)) >= state_probes

\* the evaluation of the last snapshot raised: temperatures is not a list,
\* or it is empty and the chain got as far as max(self.temperatures)
Malformed ==
    \/ ~IsList
    \/ temperatures.vals = <<>> /\ \A i \in 1..5 : ~RuleMatches(i)

\* C16: when the evaluation of a snapshot raises inside update_measurements,
\* the call appends a COMMUNICATION_FAILURE record and leaves the state
\* FAULT.
C16_ExceptionBecomesCommFailure ==
    (op.name = "update_measurements" /\ Malformed)
    => /\ current_state = FAULT
       /\ Appended # <<>>
       /\ Last(fault_history).type = COMMUNICATION_FAILURE

\* C17: update_measurements never lets an exception out to its caller.
C17_NeverPropagates ==
    op.name = "update_measurements" => ~op.raised

\* the snapshot of the last update is over temp_warning only
WarmOnly ==
    /\ WellFormed
    /\ Matching = {}
    /\ \E k \in DOMAIN temperatures.vals :
           temperatures.vals[k] > thresholds.temp_warning

\* C20: a snapshot whose highest temperature is over temp_warning and not
\* over temp_shutdown, and that matches no fault rule, sets the state to
\* WARNING, appends no fault record, leaves fault_count as it was and runs
\* no fault callback.
C20_WarningIsNotAFault ==
    (op.name = "update_measurements" /\ WarmOnly)
    => /\ ~op.raised
       /\ current_state = WARNING
       /\ Appended = <<>>
       /\ fault_count = op.prev_count
       /\ AllCallbackCalls = {}

\* C20 witness: a warm snapshot took a monitor with callbacks for every
\* probed type from FAULT to WARNING.
C20_Witness ==
    /\ Updated /\ WarmOnly
    /\ op.prev_state = FAULT /\ current_state = WARNING
    /\ \A t \in ProbeTypes : fault_probes[t] # "none"
    /\ fault_count = Len(fault_history) /\ fault_count > 0

\* C18: when the driver's measurement call throws during
\* measure_parameters, the call does not raise and the monitor is in FAULT
\* with a newly appended COMMUNICATION_FAILURE record.
C18_MeasureFailureBecomesFault ==
    (op.name = "measure_parameters" /\ op.drv.measure = "throw")
    => /\ ~op.raised
       /\ current_state = FAULT
       /\ Len(fault_history) = op.prev_len + 1
       /\ Last(fault_history).type = COMMUNICATION_FAILURE

(* ------------ a PowerManagement whose instrument misbehaves ----------- *)
\* how the instrument answers the two commands of a shutdown
DrvShutdown(e, c) == Drv(e, c, "ok", "ok")

\* readings that reach every electrical fault rule: nominal, HP over- and
\* under-voltage, LP over-voltage, over-current
ShutElectrical ==
    { <<70, 14, 40>>, <<71, 14, 40>>, <<15, 14, 40>>, <<70, 25, 40>>,
      <<70, 14, 51>> }
ShutReadings(sim, out) ==
    {Snapshot(e[1], e[2], e[3], t) :
        e \in ShutElectrical, t \in read_temperatures(sim, out)}

\* pm.emergency_shutdown(immediate=...) on an instrument that answers the
\* shutdown commands in every way
FaultyShutdown ==
    \E immediate \in BOOLEAN, e \in EnableOutcomes, c \in SetOutcomes :
        \E w \in {emergency_shutdown(World(DrvShutdown(e, c)),
                                      "emergency_shutdown", immediate)} :
            /\ Commit(w)
            /\ op' = Observe("emergency_shutdown",
                              IF immediate THEN "immediate" ELSE "staged",
                              DrvShutdown(e, c), w)

\* pm.measure_parameters() with the instrument answering normally
ShutMeasure ==
    \E r \in ShutReadings(use_simulator, output_enabled) :
        \E w \in {measure_parameters(World(DrvOk), r)} :
            /\ Commit(w)
            /\ op' = Observe("measure_parameters", "", DrvOk, w)

InitShut == InitFields(TRUE, TRUE)
NextShut ==
    \/ EnableOutput
    \/ FaultyShutdown
    \/ ShutMeasure
    \/ PmConfigureThresholds
SpecShut == InitShut /\ [][NextShut]_vars

(* -------------------- properties of the shutdown ---------------------- *)
\* C11: emergency_shutdown, called in any state and any number of times in
\* succession, never raises and leaves output_enabled False.
C11_ShutdownLeavesOutputOff ==
    op.name = "emergency_shutdown"
    => /\ ~op.raised
       /\ output_enabled = FALSE

\* the driver commands of the last operation, in the order issued
DriverCommands ==
    SelectSeq(trace, LAMBDA ev :
        ev.ev \in {"driver.enable_output", "driver.set_current_limit",
                   "driver.set_voltage"})
CmdLimit == Event("driver.set_current_limit", MinCurrentLimit)
CmdOff == Event("driver.enable_output", "False")

\* C12: a staged emergency_shutdown commands set_current_limit(0.1) first
\* and enable_output(False) after it, as soon as set_current_limit has
\* returned, and nothing else; an immediate one commands enable_output(False)
\* only.
C12_ShutdownCommandOrder ==
    op.name = "emergency_shutdown"
    => IF op.arg = "immediate"
       THEN DriverCommands = << CmdOff >>
       ELSE /\ DriverCommands # <<>>
            /\ DriverCommands[1] = CmdLimit
            /\ \A i \in 2..Len(DriverCommands) : DriverCommands[i] = CmdOff
            /\ Len(DriverCommands) <= 2
            /\ op.drv.set_current_limit # "throw"
                  => DriverCommands = << CmdLimit, CmdOff >>

\* C12 witness: a staged shutdown of an enabled output, the instrument
\* refusing the lower limit, went on to switch the output off.
C12_Witness ==
    /\ op.name = "emergency_shutdown" /\ op.arg = "staged"
    /\ op.prev_out = TRUE /\ op.drv.set_current_limit = "false"
    /\ DriverCommands = << CmdLimit, CmdOff >>
    /\ hw_output = FALSE

\* an immediate shutdown of an enabled output
C12_WitnessImmediate ==
    /\ op.name = "emergency_shutdown" /\ op.arg = "immediate"
    /\ op.prev_out = TRUE /\ DriverCommands = << CmdOff >>

\* C13: the callback of a fault calls emergency_shutdown with
\* immediate=True exactly when the fault is the fast over-current tier
\* (current over over_current_fast); the slow tier and every other type get
\* immediate=False.
C13_ImmediateOnlyForFastOvercurrent ==
    op.name = "measure_parameters"
    => /\ Cardinality(AllCallbackCalls) = Len(Appended)
       /\ \A i \in AllCallbackCalls :
             /\ i < Len(trace)
             /\ trace[i + 1].ev = "emergency_shutdown"
             /\ trace[i + 1].arg = "immediate"
                  <=> /\ trace[i].arg = OVERCURRENT
                      /\ output_current > thresholds.over_current_fast

\* C13 witness: a fast over-current was shut down immediately.
C13_Witness ==
    /\ op.name = "measure_parameters"
    /\ Appended = << FaultInfo(OVERCURRENT, DescFast) >>
    /\ \E i \in CallbackCalls(OVERCURRENT) :
           trace[i + 1] = Event("emergency_shutdown", "immediate")

\* a slow over-current was shut down in stages
C13_WitnessSlow ==
    /\ op.name = "measure_parameters"
    /\ Appended = << FaultInfo(OVERCURRENT, DescSlow) >>
    /\ \E i \in CallbackCalls(OVERCURRENT) :
           trace[i + 1] = Event("emergency_shutdown", "staged")

\* C19: every emergency_shutdown call appends exactly one shutdown record
\* to the controller's fault_history, also when a driver call of the
\* shutdown fails or throws.
C19_ShutdownAlwaysRecorded ==
    op.name = "emergency_shutdown"
    => Len(pm_fault_history) = op.prev_pm_len + 1

(* ------------- what an evaluation leaves alone (SpecProbe) ------------ *)
\* C21: an update_measurements call made in NORMAL with a readable snapshot
\* that exceeds no threshold returns with the state still NORMAL, the same
\* fault_history and fault_count, and neither a fault callback nor a state
\* observer invoked.
C21_NominalLeavesNormal ==
    [][(op'.name = "update_measurements" /\ current_state = NORMAL
            /\ Nominal')
       => /\ ~op'.raised
          /\ current_state' = NORMAL
          /\ fault_history' = fault_history
          /\ fault_count' = fault_count
          /\ trace' = <<>>]_vars
\* a nominal update in NORMAL of a monitor that has a fault on record, a
\* fault callback and a state observer registered
C21_Witness ==
    /\ op.name = "update_measurements" /\ op.prev_state = NORMAL /\ Nominal
    /\ current_state = NORMAL
    /\ fault_history # <<>>
    /\ state_probes > 0
    /\ \E t \in FaultType : fault_probes[t] # "none"

\* C22: fault_history only grows by appending (every earlier history is a
\* prefix of every later one), fault_count never decreases, and fault_count
\* is the length of fault_history in every state.
C22_HistoryAppendOnly ==
    /\ [](fault_count = Len(fault_history))
    /\ [][/\ Len(fault_history') >= Len(fault_history)
          /\ SubSeq(fault_history', 1, Len(fault_history)) = fault_history
          /\ fault_count' >= fault_count]_vars
\* a monitor back in NORMAL after two faults, both still on record
C22_Witness ==
    /\ current_state = NORMAL
    /\ op.prev_state = FAULT
    /\ Len(fault_history) >= 2
    /\ fault_count = Len(fault_history)

(* ---------- a PowerManagement from construction to teardown ----------- *)
\* The instrument answers enable_output and the measurement in every way,
\* in whatever operation calls them.  Besides the constructed controller
\* there is the object whose __init__ stopped in
\* _initialize_hardware_drivers, before is_initialized was set: the object
\* that __del__ hands to cleanup.
DrvLife(e, m) == Drv(e, "ok", "ok", m)
\* the clock readings of the startup test (ms), on both sides of the limit
StartupLatencies == {25, 40, 55}
\* readings with the LP voltage at the target, off it within the
\* tolerance, and outside the tolerance; and an HP over-voltage
StartupElectrical ==
    { <<70, 14, 40>>, <<70, 13, 40>>, <<70, 12, 40>>, <<71, 14, 40>> }
StartupReadings(sim, out) ==
    {Snapshot(e[1], e[2], e[3], t) :
        e \in StartupElectrical, t \in read_temperatures(sim, out)}

\* pm.enable_output(enable), pm.cleanup() and pm.perform_startup_test()
LifeEnableOutput ==
    \E enable \in BOOLEAN, e \in EnableOutcomes :
        \E w \in {enable_output(World(DrvLife(e, "ok")), enable)} :
            /\ Commit(w)
            /\ op' = Observe("enable_output", BoolStr(enable),
                              DrvLife(e, "ok"), w)

Cleanup ==
    \E e \in EnableOutcomes :
        \E w \in {cleanup(World(DrvLife(e, "ok")))} :
            /\ Commit(w)
            /\ op' = Observe("cleanup", "", DrvLife(e, "ok"), w)

StartupTest ==
    \E latency \in StartupLatencies, e \in EnableOutcomes,
       m \in MeasureOutcomes :
        \E w1 \in {enable_output(World(DrvLife(e, m)), TRUE)} :
            \E r \in IF m = "ok"
                      THEN StartupReadings(use_simulator, w1.output_enabled)
                      ELSE {NoReading} :
                \E w \in {perform_startup_test(World(DrvLife(e, m)),
                                                latency, r)} :
                    /\ Commit(w)
                    /\ op' = [Observe("perform_startup_test", "",
                                       DrvLife(e, m), w)
                                  EXCEPT !.args = << latency >>]

InitLife == \E initialized \in BOOLEAN : InitObject(TRUE, TRUE, initialized)
NextLife ==
    \/ LifeEnableOutput
    \/ Cleanup
    \/ StartupTest
SpecLife == InitLife /\ [][NextLife]_vars

\* C23: enable_output never raises and changes output_enabled only when
\* the driver call reports success: a controller that is not initialized
\* returns False without calling the driver; when the driver returns False
\* or throws, enable_output returns False and output_enabled is unchanged;
\* when the driver reports success output_enabled is the requested value.
C23_EnableOutputFollowsDriver ==
    op.name = "enable_output" =>
        /\ ~op.raised
        /\ (output_enabled # op.prev_out
               => is_initialized /\ op.drv.enable_output = "ok")
        /\ (~is_initialized
               => /\ op.ret = "False"
                  /\ trace = <<>>
                  /\ output_enabled = op.prev_out)
        /\ (is_initialized /\ op.drv.enable_output \in {"false", "throw"}
               => /\ op.ret = "False"
                  /\ output_enabled = op.prev_out)
        /\ (is_initialized /\ op.drv.enable_output = "ok"
               => /\ op.ret = "True"
                  /\ output_enabled = (op.arg = "True"))
\* the driver threw when asked to switch a running output off
C23_Witness ==
    /\ op.name = "enable_output" /\ op.arg = "False"
    /\ op.drv.enable_output = "throw"
    /\ op.prev_out /\ output_enabled
    /\ op.ret = "False"
\* enable_output(True) on the controller that is not initialized
C23_WitnessNotInitialized ==
    /\ op.name = "enable_output" /\ op.arg = "True"
    /\ ~is_initialized /\ op.ret = "False"
\* the driver reported success and the output was switched on
C23_WitnessSuccess ==
    /\ op.name = "enable_output" /\ op.arg = "True"
    /\ op.drv.enable_output = "ok"
    /\ ~op.prev_out /\ output_enabled

\* C24: cleanup never raises and leaves output_enabled False; it commands
\* the driver enable_output(False) at most once, and not at all when the
\* output is already disabled (so repeated cleanup calls, or cleanup after
\* an emergency_shutdown, command the driver at most once in all).
C24_CleanupDisablesOnce ==
    op.name = "cleanup" =>
        /\ ~op.raised
        /\ ~output_enabled
        /\ Len(DriverCommands) <= 1
        /\ (~op.prev_out => DriverCommands = <<>>)

\* the startup latency and the output voltage the last startup test saw
\* (measurements.get('lp_voltage', 0) of what measure_parameters returned)
StartupLatency == op.args[1]
StartupVoltage ==
    IF op.drv.measure = "ok" THEN measurements.lp_voltage ELSE 0

\* C25: perform_startup_test reports PASS exactly when the startup latency
\* is below 40 ms, the measured output voltage is within 10% of 14 V and
\* the monitor is NORMAL at the end, and FAIL otherwise; the timing step is
\* PASS exactly when the latency is below 40 ms and the voltage step is PASS
\* exactly when the voltage is in tolerance, each whatever the other is.
C25_StartupVerdict ==
    op.name = "perform_startup_test" =>
        LET timing == StartupLatency < 40
            voltage == 10 * Abs(StartupVoltage - 14) < 14
        IN  /\ op.ret \in {"PASS", "FAIL"}
            /\ op.ret = "PASS"
                   <=> (timing /\ voltage /\ current_state = NORMAL)
            /\ op.steps[1] = "PASS" <=> timing
            /\ op.steps[2] = "PASS" <=> voltage
            /\ op.steps[1] \in {"PASS", "FAIL"}
            /\ op.steps[2] \in {"PASS", "FAIL"}
\* latency 55 ms with the voltage in tolerance: FAIL, the timing step
\* failed and the voltage step passed
C25_Witness ==
    /\ op.name = "perform_startup_test"
    /\ StartupLatency = 55 /\ StartupVoltage = 13
    /\ current_state = NORMAL
    /\ op.ret = "FAIL" /\ op.steps = << "FAIL", "PASS" >>
\* latency 25 ms with the voltage in tolerance: PASS
C25_WitnessPass ==
    /\ op.name = "perform_startup_test"
    /\ StartupLatency = 25 /\ StartupVoltage = 14
    /\ op.ret = "PASS" /\ op.steps = << "PASS", "PASS" >>
\* both steps passed and the monitor is in FAULT: FAIL
C25_WitnessFault ==
    /\ op.name = "perform_startup_test"
    /\ op.steps = << "PASS", "PASS" >> /\ current_state = FAULT
    /\ op.ret = "FAIL"

\* C26: perform_startup_test never raises, and when the driver throws
\* while the output is enabled or while the measurement is taken the
\* returned final_result is ERROR.
C26_DriverFailureGivesError ==
    op.name = "perform_startup_test" =>
        /\ ~op.raised
        /\ ((is_initialized /\ op.drv.enable_output = "throw")
                \/ op.drv.measure = "throw")
              => op.ret = "ERROR"

(* ------------------------- the voltage sweep -------------------------- *)
\* the arguments of the sweeps explored, and what the instrument reads
\* during a sweep (two currents, everything inside the limits)
SweepVoltages == {10, 13, 14}
SweepSteps == {-1, 1, 2}
SweepElectrical == { <<70, 14, 40>>, <<70, 14, 39>> }
SweepReadings(sim, out) ==
    {Snapshot(e[1], e[2], e[3], t) :
        e \in SweepElectrical, t \in read_temperatures(sim, out)}

\* pm.perform_voltage_sweep_test(start_v, end_v, step_v, dwell_time)
PerformVoltageSweepTest ==
    \E start_v \in SweepVoltages, end_v \in SweepVoltages,
       step_v \in SweepSteps, o \in SetOutcomes :
        \E r \in SweepReadings(use_simulator, output_enabled) :
            \E w \in {perform_voltage_sweep_test(World(DrvVoltage(o)),
                                                  start_v, end_v, step_v, r)} :
                /\ Commit(w)
                /\ op' = [Observe("perform_voltage_sweep_test", "",
                                   DrvVoltage(o), w)
                              EXCEPT !.args = << start_v, end_v, step_v >>]

\* pm.measure_parameters() between sweeps, with the HP voltage in and out
\* of range
SweepMeasure ==
    \E r \in SweepReadings(use_simulator, output_enabled)
              \cup {Snapshot(71, 14, 40, t) :
                        t \in read_temperatures(use_simulator,
                                                output_enabled)} :
        \E w \in {measure_parameters(World(DrvOk), r)} :
            /\ Commit(w)
            /\ op' = Observe("measure_parameters", "", DrvOk, w)

InitSweep == InitFields(TRUE, TRUE)
NextSweep == PerformVoltageSweepTest \/ SweepMeasure
SpecSweep == InitSweep /\ [][NextSweep]_vars

\* the targets of the last sweep and the voltages the driver was given
SweepCount == Abs(op.args[2] - op.args[1]) \div Abs(op.args[3]) + 1
SweepTarget(i) ==
    IF op.args[2] >= op.args[1]
    THEN op.args[1] + (i - 1) * Abs(op.args[3])
    ELSE op.args[1] - (i - 1) * Abs(op.args[3])
VoltagesSet ==
    SelectSeq(trace, LAMBDA ev : ev.ev = "driver.set_voltage")

C27_WitnessAscending ==
    /\ op.name = "perform_voltage_sweep_test"
    /\ op.args = << 10, 14, 1 >>
    /\ Len(op.out) = 5
    /\ \A i \in 1 .. 5 : op.out[i].status = "PASS"

(* ------------- a monitor under any limits and any readings ------------ *)
\* Snapshots with readings in range, out of range and NaN, and overrides
\* that keep or break the order of the limits: HP limits swapped, the slow
\* over-current limit raised to the fast one, the temperature limits
\* swapped, a limit that is NaN.
CfgSnapshots ==
    { Snapshot(42, 14, 10, TempList(<<25, 28>>)),
      Snapshot(71, 14, 10, TempList(<<25, 25>>)),
      Snapshot(42, 14, 10, TempList(<<25, 102>>)),
      Snapshot(NaN, 14, 10, TempList(<<25, 28>>)),
      Snapshot(42, 14, 10, TempList(<<NaN, 25>>)),
      Snapshot(42, 14, 10, TempList(<<25, NaN>>)) }
CfgOverrides ==
    { [hp_over_voltage |-> 71],
      [hp_under_voltage |-> 70, hp_over_voltage |-> 16],
      [over_current_slow |-> 50],
      [temp_warning |-> 105, temp_shutdown |-> 100],
      [lp_over_voltage |-> NaN] }

\* monitor.update_measurements(m)
CfgUpdate ==
    \E m \in CfgSnapshots :
        \E w \in {update_measurements(World(DrvOk), m)} :
            /\ Commit(w)
            /\ op' = Observe("update_measurements", "", DrvOk, w)

\* monitor.configure_thresholds(new_thresholds)
CfgConfigure ==
    \E o \in CfgOverrides :
        \E w \in {configure_thresholds(World(DrvOk), o)} :
            /\ Commit(w)
            /\ op' = [Observe("configure_thresholds", "", DrvOk, w)
                          EXCEPT !.args = << o >>]

InitCfg == InitFields(FALSE, FALSE)
NextCfg == CfgUpdate \/ CfgConfigure
SpecCfg == InitCfg /\ [][NextCfg]_vars

\* the ordering the limits are required to have
Ordered(th) ==
    /\ \A k \in DOMAIN th : th[k] # NaN
    /\ th.hp_under_voltage < th.hp_over_voltage
    /\ th.over_current_slow < th.over_current_fast
    /\ th.temp_warning < th.temp_shutdown
\* the limits th with the recognised keys of the override o applied
Overridden(th, o) ==
    [k \in DOMAIN th |-> IF k \in DOMAIN o THEN o[k] ELSE th[k]]

\* C28: a configure_thresholds call whose overrides would break
\* hp_under_voltage < hp_over_voltage, over_current_slow < over_current_fast
\* or temp_warning < temp_shutdown fails (raises ConfigurationError) and
\* leaves every limit at its previous value.
C28_InvalidOverridesRejected ==
    [][(op'.name = "configure_thresholds"
            /\ ~Ordered(Overridden(thresholds, op'.args[1])))
       => (op'.raised /\ thresholds' = thresholds)]_vars

\* no reading of the last snapshot and no limit is NaN
NoNaN ==
    /\ hp_voltage # NaN /\ lp_voltage # NaN /\ output_current # NaN
    /\ \A i \in DOMAIN temperatures.vals : temperatures.vals[i] # NaN
    /\ \A k \in DOMAIN thresholds : thresholds[k] # NaN

C30_WitnessWarning ==
    /\ op.name = "update_measurements" /\ op.prev_state = FAULT
    /\ NoNaN
    /\ Len(fault_history) = op.prev_len
    /\ current_state = WARNING

(* ------------------- a monitor whose status is read ------------------- *)
\* Snapshots that are nominal or fault in two ways, so that the order of
\* the records shows; histories grow past the five records reported.
StatusSnapshots ==
    { Snapshot(42, 14, 10, TempList(<<25, 28>>)),
      Snapshot(71, 14, 10, TempList(<<25, 25>>)),
      Snapshot(42, 14, 51, TempList(<<25, 25>>)) }

\* monitor.update_measurements(m)
StatusUpdate ==
    \E m \in StatusSnapshots :
        \E w \in {update_measurements(World(DrvOk), m)} :
            /\ Len(w.fault_history) <= MaxStatusFaults
            /\ Store(w)
            /\ op' = Observe("update_measurements", "", DrvOk, w)

\* monitor.add_fault_callback(HP_OVERVOLTAGE, probe)
StatusAddFaultCallback ==
    \E w \in {add_fault_callback(World(DrvOk), HP_OVERVOLTAGE, "probe")} :
        /\ Store(w)
        /\ op' = Observe("add_fault_callback", HP_OVERVOLTAGE, DrvOk, w)

\* monitor.get_safety_status()
GetSafetyStatus ==
    \E w \in {get_safety_status(World(DrvOk))} :
        /\ Store(w)
        /\ op' = Observe("get_safety_status", "", DrvOk, w)

InitStatus == InitFields(FALSE, FALSE)
NextStatus == StatusUpdate \/ StatusAddFaultCallback \/ GetSafetyStatus
SpecStatus == InitStatus /\ [][NextStatus]_vars

\* C29: get_safety_status changes neither current_state, fault_history,
\* fault_count nor the stored measurements (nor the limits and the
\* registered callbacks), invokes no callback, and its recent_faults are the
\* last min(5, n) records of fault_history in their original order.
C29_StatusIsReadOnly ==
    [][op'.name = "get_safety_status"
       => /\ ~op'.raised
          /\ UNCHANGED << current_state, fault_history, fault_count,
                          hp_voltage, lp_voltage, output_current,
                          temperatures, thresholds, fault_probes,
                          state_probes >>
          /\ trace' = <<>>
          /\ LET n == Len(fault_history)
                 k == IF n < 5 THEN n ELSE 5
             IN  /\ Len(op'.out) = k
                 /\ \A i \in 1 .. k :
                        op'.out[i] = fault_history[n - k + i]]_vars
\* the status of a monitor with six records of two kinds: the oldest is
\* left out
C29_Witness ==
    /\ op.name = "get_safety_status"
    /\ Len(fault_history) = 6
    /\ fault_history[1].type # fault_history[2].type
    /\ Len(op.out) = 5
    /\ op.out[1] = fault_history[2]
    /\ fault_probes[HP_OVERVOLTAGE] = "probe"

(* ---------------- how the monitor moves between states ---------------- *)
\* C31: once current_state is WARNING no update_measurements call moves it
\* directly to NORMAL, nominal snapshots included: from WARNING the state
\* stays WARNING or becomes FAULT.
C31_WarningIsSticky ==
    [][current_state = WARNING => current_state' # NORMAL]_vars
\* a nominal snapshot was evaluated in WARNING and the state is WARNING
C31_Witness ==
    /\ op.name = "update_measurements" /\ op.prev_state = WARNING
    /\ Nominal
    /\ current_state = WARNING

\* every reading of the last snapshot is in its nominal range, as the
\* monitor compares them
AllNominal ==
    /\ WellFormed
    /\ Le(thresholds.hp_under_voltage, hp_voltage)
    /\ Le(hp_voltage, thresholds.hp_over_voltage)
    /\ Le(lp_voltage, thresholds.lp_over_voltage)
    /\ Le(output_current, thresholds.over_current_slow)
    /\ Le(Max(temperatures.vals), thresholds.temp_warning)

\* C32 as stated: when current_state is FAULT before an update_measurements
\* call and not FAULT after it, the snapshot has HP within its limits, LP
\* and current not above theirs and the maximum temperature not above
\* temp_warning.
C32_LeavesFaultOnlyWhenNominal ==
    (op.name = "update_measurements" /\ op.prev_state = FAULT
        /\ current_state # FAULT)
    => AllNominal

\* C32, amended: when current_state is FAULT before an update_measurements
\* call and NORMAL after it, every reading of the snapshot is nominal; when
\* it is WARNING after it, the maximum temperature is above temp_warning.
C32_LeavesFaultForNormalOnlyWhenNominal ==
    (op.name = "update_measurements" /\ op.prev_state = FAULT)
    => /\ current_state = NORMAL => AllNominal
       /\ current_state = WARNING
              => /\ WellFormed
                 /\ Gt(Max(temperatures.vals), thresholds.temp_warning)
\* a recovery under limits that were changed while in FAULT
C32_Witness ==
    /\ op.name = "update_measurements" /\ op.prev_state = FAULT
    /\ current_state = NORMAL
    /\ thresholds # DefaultThresholds
    /\ AllNominal
\* a snapshot in the warning band took the monitor from FAULT to WARNING
C32_WitnessWarning ==
    /\ op.name = "update_measurements" /\ op.prev_state = FAULT
    /\ current_state = WARNING
    /\ ~AllNominal

\* the observer calls of the last operation
ObserverCalls == {i \in DOMAIN trace : trace[i].ev = "observer"}

\* C33: an update_measurements call that leaves current_state as it was
\* invokes no state-change observer, and a call that changes it invokes
\* each registered observer exactly once.
C33_ObserversOncePerChange ==
    op.name = "update_measurements"
    => Cardinality(ObserverCalls)
           = IF current_state = op.prev_state THEN 0 ELSE state_probes

(* ------- faults detected while the instrument answers in any way ------ *)
\* readings that are nominal, an HP over-voltage, a fast and a slow
\* over-current
TripElectrical ==
    { <<70, 14, 40>>, <<71, 14, 40>>, <<70, 14, 51>>, <<70, 14, 45>> }
TripReadings(sim, out) ==
    {Snapshot(e[1], e[2], e[3], t) :
        e \in TripElectrical, t \in read_temperatures(sim, out)}

\* pm.measure_parameters() on an instrument that answers the shutdown
\* commands of the callbacks in every way
TripMeasure ==
    \E e \in {"ok", "false", "throw"}, c \in {"ok", "throw"} :
        \E r \in TripReadings(use_simulator, output_enabled) :
            \E w \in {measure_parameters(World(DrvShutdown(e, c)), r)} :
                /\ Commit(w)
                /\ op' = Observe("measure_parameters", "",
                                  DrvShutdown(e, c), w)

InitTrip == InitFields(TRUE, TRUE)
NextTrip == EnableOutput \/ TripMeasure
SpecTrip == InitTrip /\ [][NextTrip]_vars

\* the emergency_shutdown invocations of the last operation, and the
\* shutdown records it appended
ShutdownCalls == {i \in DOMAIN trace : trace[i].ev = "emergency_shutdown"}
ShutdownRecords == Len(pm_fault_history) - op.prev_pm_len

\* C34 as stated: each fault record the monitor appends during
\* measure_parameters results in exactly one emergency_shutdown invocation
\* and exactly one shutdown record, whether or not the state changes.
C34_OneShutdownPerFault ==
    op.name = "measure_parameters"
    => /\ Cardinality(ShutdownCalls) = Len(Appended)
       /\ ShutdownRecords = Len(Appended)

\* C34, amended: each fault record the monitor appends during
\* measure_parameters results in one emergency_shutdown invocation by the
\* fault callback and, when the fault changes the state to FAULT, a second
\* one by the state-change observer; no invocation appends more than one
\* shutdown record, and without a fault record there is no shutdown.
C34_ShutdownPerFaultAndPerChange ==
    op.name = "measure_parameters"
    => /\ Len(Appended) <= 1
       /\ Cardinality(ShutdownCalls)
              = IF Appended = <<>> THEN 0
                ELSE IF op.prev_state = FAULT THEN 1 ELSE 2
       /\ ShutdownRecords <= Cardinality(ShutdownCalls)
       /\ (op.drv = DrvOk => ShutdownRecords = Cardinality(ShutdownCalls))
\* a fault in NORMAL: two shutdowns, two records
C34_Witness ==
    /\ op.name = "measure_parameters" /\ op.prev_state = NORMAL
    /\ Len(Appended) = 1
    /\ Cardinality(ShutdownCalls) = 2 /\ ShutdownRecords = 2
\* a fault in FAULT: one shutdown
C34_WitnessInFault ==
    /\ op.name = "measure_parameters" /\ op.prev_state = FAULT
    /\ Len(Appended) = 1
    /\ Cardinality(ShutdownCalls) = 1 /\ ShutdownRecords = 1

\* C35: when measure_parameters detects a fast over-current, the first
\* command the driver is given is enable_output(False); set_current_limit
\* comes after it, if at all.
C35_FastOverCurrentDisablesFirst ==
    (op.name = "measure_parameters"
        /\ Appended = << FaultInfo(OVERCURRENT, DescFast) >>)
    => /\ DriverCommands # <<>>
       /\ DriverCommands[1] = CmdOff
\* a fast over-current in NORMAL: the output is commanded off, then the
\* observer's staged shutdown lowers the limit and commands it off again
C35_Witness ==
    /\ op.name = "measure_parameters" /\ op.prev_state = NORMAL
    /\ Appended = << FaultInfo(OVERCURRENT, DescFast) >>
    /\ DriverCommands = << CmdOff, CmdLimit, CmdOff >>

\* C36: a staged emergency_shutdown always commands the driver
\* enable_output(False), also when set_current_limit throws, and
\* output_enabled is False when it returns.
C36_StagedShutdownAlwaysDisables ==
    (op.name = "emergency_shutdown" /\ op.arg = "staged")
    => /\ \E i \in DOMAIN DriverCommands : DriverCommands[i] = CmdOff
       /\ ~output_enabled

\* C37: output_enabled goes from True to False only in an operation whose
\* enable_output(False) command the driver answered with success.
C37_OffOnlyWhenDriverConfirmed ==
    (op.prev_out /\ ~output_enabled)
    => /\ \E i \in DOMAIN DriverCommands : DriverCommands[i] = CmdOff
       /\ op.drv.enable_output = "ok"
       /\ ~hw_output

\* C38: the shutdown records appended for a fault detected inside
\* measure_parameters carry the measurements of the snapshot that
\* triggered the fault (what measure_parameters returns and stores).
C38_RecordCarriesTriggeringSnapshot ==
    op.name = "measure_parameters"
    => \A i \in DOMAIN trace :
           trace[i].ev = "shutdown_record.measurements"
           => trace[i].arg = ToString(measurements)

\* C39: a set_voltage call that succeeds has the monitor evaluate one
\* snapshot once: fault_count grows by at most 1 and at most one fault
\* callback is invoked.
C39_SetVoltageEvaluatesOnce ==
    (op.name = "set_voltage" /\ op.ret = "True")
    => /\ fault_count <= op.prev_count + 1
       /\ Cardinality(AllCallbackCalls) <= 1

\* C40: whenever perform_startup_test reports PASS, the enable_output(True)
\* call of the test was answered with success by the driver and
\* output_enabled is True when the test returns.
C40_PassRequiresEnabledOutput ==
    (op.name = "perform_startup_test" /\ op.ret = "PASS")
    => /\ is_initialized
       /\ op.drv.enable_output = "ok"
       /\ output_enabled

====
